---- MODULE Spec2Model ----
(***************************************************************************)
(* ATOM Echo voice assistant (platformio-espidf/src/main.c).               *)
(*                                                                         *)
(* Two FreeRTOS tasks share the recording state without a lock:            *)
(*   recording_task (priority 10) reads the microphone while is_recording  *)
(*   button_task    (priority 5)  debounces the button, arms and disarms   *)
(*                                capture and runs the three network phases *)
(* Every read or write of a shared variable is a step of its own, so that  *)
(* the interleavings of the two tasks are the ones the unsynchronised code *)
(* allows.  Sample counts are in samples, as in the source.                *)
(***************************************************************************)
EXTENDS Integers, Sequences, FiniteSets, TLC

(* ---------------- program constants ---------------- *)
SAMPLE_RATE == 24000
AUDIO_CHUNK_SIZE == 1024
SizeofInt16 == 2

(* sizeof(audio_chunk): the byte count asked of i2s_channel_read *)
ChunkBytes == AUDIO_CHUNK_SIZE * SizeofInt16

(* ---------------- bounds of the model ---------------- *)
(* MAX_RECORDING_DURATION_MS is 5000 in the source (120000 samples, 117    *)
(* chunks and 192 samples over).  The model records for 136 ms: 3264       *)
(* samples, 3 chunks and the same 192 samples over, so that the buffer     *)
(* fills within a few reads and the last chunk still does not fit.         *)
MaxRecordingMs == 136

(* recording_buffer_size as start_recording computes it (line 656) *)
BufferSamples == (SAMPLE_RATE * MaxRecordingMs) \div 1000

(* history counters saturate here *)
MaxCount == 2
(* the per-cycle request log stops growing here *)
MaxLog == 7

Phases == {"transcribe", "generate", "synthesize"}

Colors == {"LED_OFF", "LED_BLUE", "LED_YELLOW", "LED_GREEN", "LED_CYAN",
           "LED_MAGENTA", "LED_RED"}

(* i2s_channel_read outcomes: ESP_OK delivers the whole chunk or nothing,  *)
(* a timeout or driver error delivers ret # ESP_OK                         *)
MicReads == {[ret |-> "ESP_OK", bytes |-> ChunkBytes],
             [ret |-> "ESP_OK", bytes |-> 0],
             [ret |-> "ESP_ERR_TIMEOUT", bytes |-> 0]}

(* What one HTTP exchange can produce: transport result, status code, the  *)
(* accumulated body, and whether strdup of the extracted field succeeded.  *)
(* body: "empty" (http_response_len = 0), "garbage" (cJSON_Parse fails),   *)
(* "no_field" (valid JSON without the field), "field" (field present).     *)
Responses ==
    {[err |-> "ESP_FAIL", status |-> 0,   body |-> "empty",    dup |-> TRUE],
     [err |-> "ESP_OK",   status |-> 500, body |-> "field",    dup |-> TRUE],
     [err |-> "ESP_OK",   status |-> 200, body |-> "empty",    dup |-> TRUE],
     [err |-> "ESP_OK",   status |-> 200, body |-> "garbage",  dup |-> TRUE],
     [err |-> "ESP_OK",   status |-> 200, body |-> "no_field", dup |-> TRUE],
     [err |-> "ESP_OK",   status |-> 200, body |-> "field",    dup |-> FALSE],
     [err |-> "ESP_OK",   status |-> 200, body |-> "field",    dup |-> TRUE]}

NoResp == [err |-> "none", status |-> 0, body |-> "empty", dup |-> FALSE]

VARIABLES
    (* shared globals, main.c 54-57 and the LED *)
    is_recording, recording_buffer, recording_buffer_size, recording_position,
    led,
    (* the heap: recording buffers allocated and not freed *)
    live_buffers,
    (* button_task locals and position *)
    pcB, last_state, current_state, sample_count, transcription, response,
    (* recording_task locals and position *)
    pcT, samples_read, posT,
    (* environment: the button pin level (active low) and requests in flight *)
    level, inflight,
    (* history variables used by the properties only *)
    offered, quietSinceGlitch, edgeCount, emptyDone,
    bufferFull, log, resp, failed, redShown,
    (* the buffer conversions taken on their own: which one ran, the bytes *)
    (* it was given and what it produced                                   *)
    codec_op, codec_in, codec_out,
    (* the integer the conversion returned or posted, and its further      *)
    (* argument where it has one                                           *)
    codec_ret, codec_arg,
    (* history: the outcome of the microphone read just returned, where    *)
    (* the push-to-talk cycle stands, and the heap blocks the pipeline     *)
    (* holds                                                               *)
    lastRead, cycle, owned

progVars == <<is_recording, recording_buffer, recording_buffer_size,
              recording_position, led, pcB, last_state, current_state,
              sample_count, transcription, response, pcT, samples_read, posT,
              level, inflight, live_buffers>>
histVars == <<offered, quietSinceGlitch, edgeCount, emptyDone,
              bufferFull, log, resp, failed, redShown>>
codecVars == <<codec_op, codec_in, codec_out, codec_ret, codec_arg>>
auditVars == <<lastRead, cycle, owned>>
vars == <<progVars, histVars, codecVars, auditVars>>

Sat(n) == IF n < MaxCount THEN n + 1 ELSE MaxCount
Logged(l, e) == IF Len(l) < MaxLog THEN Append(l, e) ELSE l
NoResps == [p \in Phases |-> NoResp]

(* ---------------- pure helpers taken from the code ---------------- *)

(* the space check without the chunk length *)
HasSpace_NoCount(pos, n, size) == pos <= size

(* the space check accepting any free space *)
HasSpace_Any(pos, n, size) == pos < size

(* line 716: the space check of recording_task *)
HasSpace(pos, n, size) == pos + n <= size

(* line 756: a falling level against the remembered state *)
PressEdge(last, cur) == last = TRUE /\ cur = FALSE

(* a release branch that does not look at the sampled level *)
ReleaseEdge_AnyLevel(last, cur) == last = FALSE

(* line 764: a rising level against the remembered state *)
ReleaseEdge(last, cur) == last = FALSE /\ cur = TRUE

(* transcribe_audio without the status test of line 544 *)
TranscribeResult_AnyStatus(r) ==
    IF r.err = "ESP_OK" /\ r.body = "field" /\ r.dup
    THEN "text" ELSE "NULL"

(* lines 540-566: transcribe_audio's result, "NULL" or an owned string *)
TranscribeResult(r) ==
    IF r.err = "ESP_OK" /\ r.status = 200 /\ r.body # "empty"
       /\ r.body = "field" /\ r.dup
    THEN "text" ELSE "NULL"

(* lines 288-311: get_ai_response's result *)
ChatResult(r) ==
    IF r.err = "ESP_OK" /\ r.status = 200 /\ r.body # "empty"
       /\ r.body = "field" /\ r.dup
    THEN "text" ELSE "NULL"

(* vTaskDelay(1000) and vTaskDelay(2000) on the button task outlast the    *)
(* 100 ms read timeout of the higher-priority recording task (lines 710,   *)
(* 873, 876): when such a delay ends, an iteration of recording_task that  *)
(* was under way when the delay began has finished.                        *)
CaptureIdle == pcT \in {"check", "sleep"}

(* no read has returned in this iteration of recording_task *)
NoRead == [ret |-> "none", bytes |-> 0]

(* a test that takes any ESP_OK read as data *)
ReadDelivered_AnyBytes(m) == m.ret = "ESP_OK"

(* line 712: if (ret == ESP_OK && bytes_read > 0) *)
ReadDelivered(m) == m.ret = "ESP_OK" /\ m.bytes > 0

(* malloc, strdup and cJSON_PrintUnformatted hand out a block (lines 235,  *)
(* 266, 302, 361, 366, 407, 444, 483, 551); a block handed out while the   *)
(* one of the same name is still held means the earlier one was lost       *)
Acquire(h, x) == IF x \in h THEN h \cup {"leak"} ELSE h \cup {x}

(* a free() that is missing *)
Release_Keep(h, x) == h

(* free(x) (lines 313-314, 369, 419, 426-427, 486, 568-569, 798, 806);     *)
(* freeing a block that is not held is a double free                       *)
Release(h, x) == IF x \in h THEN h \ {x} ELSE h \cup {"double_free"}

(* the program's state when app_main has started the two tasks (821-883) *)
InitProgram ==
    /\ is_recording = FALSE
    /\ recording_buffer = "NULL"
    /\ recording_buffer_size = 0
    /\ recording_position = 0
    /\ led = "LED_GREEN"
    /\ pcB = "poll"
    /\ last_state = TRUE
    /\ current_state = TRUE
    /\ sample_count = 0
    /\ transcription = "NULL"
    /\ response = "NULL"
    /\ pcT = "check"
    /\ samples_read = 0
    /\ posT = 0
    /\ level = TRUE
    /\ inflight = {}
    /\ offered = 0
    /\ quietSinceGlitch = FALSE
    /\ edgeCount = 0
    /\ emptyDone = FALSE
    /\ bufferFull = FALSE
    /\ log = <<>>
    /\ resp = NoResps
    /\ failed = "none"
    /\ redShown = FALSE
    /\ live_buffers = 0
    /\ lastRead = NoRead
    /\ cycle = "none"
    /\ owned = {}

Init ==
    /\ InitProgram
    /\ codec_op = "none"
    /\ codec_in = <<>>
    /\ codec_out = <<>>
    /\ codec_ret = 0
    /\ codec_arg = 0

(* memcpy of n > 0 bytes through a null pointer (lines 523 and 717): the   *)
(* behaviour is undefined; the ESP32 raises a Load/StoreProhibited panic   *)
(* and restarts, or the copy goes through and the program carries on       *)
NullAccess(ptr, n) == ptr = "NULL" /\ n > 0

(* the panic handler restarts the chip: app_main runs again and both tasks *)
(* start afresh; only the button keeps its level                           *)
Reboot ==
    /\ is_recording' = FALSE
    /\ recording_buffer' = "NULL"
    /\ recording_buffer_size' = 0
    /\ recording_position' = 0
    /\ led' = "LED_GREEN"
    /\ pcB' = "poll"
    /\ last_state' = TRUE
    /\ current_state' = TRUE
    /\ sample_count' = 0
    /\ transcription' = "NULL"
    /\ response' = "NULL"
    /\ pcT' = "check"
    /\ samples_read' = 0
    /\ posT' = 0
    /\ inflight' = {}
    /\ offered' = 0
    /\ quietSinceGlitch' = FALSE
    /\ edgeCount' = 0
    /\ emptyDone' = FALSE
    /\ bufferFull' = FALSE
    /\ log' = <<>>
    /\ resp' = NoResps
    /\ failed' = "none"
    /\ redShown' = FALSE
    /\ live_buffers' = 0
    /\ lastRead' = NoRead
    /\ cycle' = "none"
    /\ owned' = {}
    /\ UNCHANGED <<level, codecVars>>

(* ================= environment ================= *)

(* the physical button level changes (a press, a release or a bounce) *)
ButtonToggle ==
    /\ level' = ~level
    /\ quietSinceGlitch' = FALSE
    /\ edgeCount' = 0
    /\ emptyDone' = IF level THEN FALSE ELSE emptyDone
    /\ cycle' = IF cycle = "ended" /\ level THEN "pressed"
              ELSE IF cycle = "pressed" THEN "ended"
              ELSE cycle
    /\ UNCHANGED <<live_buffers, codecVars, lastRead, owned,
                   is_recording, recording_buffer, recording_buffer_size,
                   recording_position, led, pcB, last_state, current_state,
                   sample_count, transcription, response, pcT, samples_read,
                   posT, inflight, offered, bufferFull, log, resp, failed,
                   redShown>>

(* ================= recording_task (702-730) ================= *)

(* line 708: test the flag; armed goes on to read, else to vTaskDelay(100) *)
RecCheck ==
    /\ pcT = "check"
    /\ pcT' = IF is_recording THEN "read" ELSE "sleep"
    /\ lastRead' = NoRead
    /\ UNCHANGED <<live_buffers, codecVars, cycle, owned,
                   is_recording, recording_buffer, recording_buffer_size,
                   recording_position, led, pcB, last_state, current_state,
                   sample_count, transcription, response, samples_read, posT,
                   level, inflight, histVars>>

(* line 727: the sleep of the disarmed branch ends *)
RecSleep ==
    /\ pcT = "sleep"
    /\ pcT' = "check"
    /\ UNCHANGED <<live_buffers, codecVars, lastRead, cycle, owned,
                   is_recording, recording_buffer, recording_buffer_size,
                   recording_position, led, pcB, last_state, current_state,
                   sample_count, transcription, response, samples_read, posT,
                   level, inflight, histVars>>

(* lines 710-713: i2s_channel_read returns; a failed or empty read goes    *)
(* back to the top of the loop                                             *)
RecRead ==
    /\ pcT = "read"
    /\ \E m \in MicReads :
         /\ lastRead' = m
         /\ IF ReadDelivered(m)
            THEN /\ samples_read' = m.bytes \div SizeofInt16
                 /\ pcT' = "space"
                 /\ offered' = IF is_recording
                               THEN offered + (m.bytes \div SizeofInt16)
                               ELSE offered
            ELSE /\ samples_read' = 0
                 /\ pcT' = "check"
                 /\ offered' = offered
    /\ UNCHANGED <<live_buffers, codecVars, cycle, owned,
                   is_recording, recording_buffer, recording_buffer_size,
                   recording_position, led, pcB, last_state, current_state,
                   sample_count, transcription, response, posT, level,
                   inflight, quietSinceGlitch, edgeCount,
                   emptyDone, bufferFull, log, resp, failed, redShown>>

(* line 716: load the cursor and the capacity and test for space *)
RecSpace ==
    /\ pcT = "space"
    /\ posT' = recording_position
    /\ pcT' = IF HasSpace(recording_position, samples_read,
                          recording_buffer_size)
              THEN "append" ELSE "disarm"
    /\ UNCHANGED <<live_buffers, codecVars, lastRead, cycle, owned,
                   is_recording, recording_buffer, recording_buffer_size,
                   recording_position, led, pcB, last_state, current_state,
                   sample_count, transcription, response, samples_read,
                   level, inflight, histVars>>

(* lines 717-718: memcpy and the store of recording_position += n; the     *)
(* cursor added to is the one loaded at line 716 or one loaded again       *)
RecAppend ==
    /\ pcT = "append"
    /\ \E base \in {posT, recording_position} :
         recording_position' = base + samples_read
    /\ pcT' = "check"
    /\ samples_read' = 0
    /\ posT' = 0
    /\ UNCHANGED <<live_buffers, codecVars, lastRead, cycle, owned,
                   is_recording, recording_buffer, recording_buffer_size,
                   led, pcB, last_state, current_state, sample_count,
                   transcription, response, level, inflight, histVars>>

(* line 717 with recording_buffer NULL: the store faults *)
RecNullCopy ==
    /\ pcT = "append"
    /\ NullAccess(recording_buffer, samples_read)
    /\ Reboot

(* line 722: buffer full, the task clears the flag itself *)
RecDisarm ==
    /\ pcT = "disarm"
    /\ is_recording' = FALSE
    /\ bufferFull' = (bufferFull \/ is_recording)
    /\ pcT' = "full_led"
    /\ UNCHANGED <<live_buffers, codecVars, lastRead, cycle, owned,
                   recording_buffer, recording_buffer_size,
                   recording_position, led, pcB, last_state, current_state,
                   sample_count, transcription, response, samples_read, posT,
                   level, inflight, offered, quietSinceGlitch, edgeCount,
                   emptyDone, log, resp, failed, redShown>>

(* line 723: set_led(LED_RED) *)
RecFullLed ==
    /\ pcT = "full_led"
    /\ led' = "LED_RED"
    /\ pcT' = "check"
    /\ samples_read' = 0
    /\ posT' = 0
    /\ UNCHANGED <<live_buffers, codecVars, lastRead, cycle, owned,
                   is_recording, recording_buffer, recording_buffer_size,
                   recording_position, pcB, last_state, current_state,
                   sample_count, transcription, response, level, inflight,
                   histVars>>

recording_task ==
    \/ RecCheck \/ RecSleep \/ RecRead \/ RecSpace \/ RecAppend
    \/ RecNullCopy \/ RecDisarm \/ RecFullLed

(* ================= button_task (738-819) ================= *)

recLocals == <<pcT, samples_read, posT>>
bufVars == <<recording_buffer, recording_buffer_size, recording_position>>
edgeHist == <<quietSinceGlitch, edgeCount, emptyDone>>
cycleHist == <<log, resp, failed, redShown>>

(* lines 753-764: sample the pin and compare with the remembered state *)
Poll ==
    /\ pcB = "poll"
    /\ current_state' = level
    /\ pcB' = IF PressEdge(last_state, level) THEN "press_debounce"
              ELSE IF ReleaseEdge(last_state, level) THEN "release_debounce"
              ELSE "loop_end"
    /\ UNCHANGED <<live_buffers, codecVars, lastRead, cycle, owned,
                   is_recording, bufVars, led, last_state, sample_count,
                   transcription, response, recLocals, level, inflight,
                   offered, edgeHist, bufferFull, cycleHist>>

(* lines 757-761: after 50 ms re-sample; low confirms the press *)
PressDebounce ==
    /\ pcB = "press_debounce"
    /\ IF level = FALSE
       THEN /\ pcB' = "sr_check"
            /\ edgeCount' = Sat(edgeCount)
            /\ UNCHANGED quietSinceGlitch
       ELSE /\ pcB' = "loop_end"
            /\ quietSinceGlitch' = TRUE
            /\ UNCHANGED edgeCount
    /\ UNCHANGED <<live_buffers, codecVars, lastRead, cycle, owned,
                   is_recording, bufVars, led, last_state, current_state,
                   sample_count, transcription, response, recLocals, level,
                   inflight, offered, emptyDone, bufferFull, cycleHist>>

(* lines 765-768: after 50 ms re-sample; high confirms the release *)
ReleaseDebounce ==
    /\ pcB = "release_debounce"
    /\ IF level = TRUE
       THEN /\ pcB' = "st_check"
            /\ edgeCount' = Sat(edgeCount)
            /\ UNCHANGED quietSinceGlitch
       ELSE /\ pcB' = "loop_end"
            /\ quietSinceGlitch' = TRUE
            /\ UNCHANGED edgeCount
    /\ UNCHANGED <<live_buffers, codecVars, lastRead, cycle, owned,
                   is_recording, bufVars, led, last_state, current_state,
                   sample_count, transcription, response, recLocals, level,
                   inflight, offered, emptyDone, bufferFull, cycleHist>>

(* ---- start_recording (648-677) ---- *)

(* lines 650-656: refuse when already armed, else compute the capacity *)
StartCheck ==
    /\ pcB = "sr_check"
    /\ IF is_recording
       THEN /\ pcB' = "loop_end"
            /\ UNCHANGED recording_buffer_size
       ELSE /\ pcB' = "sr_alloc"
            /\ recording_buffer_size' = BufferSamples
    /\ UNCHANGED <<live_buffers, codecVars, lastRead, cycle, owned,
                   is_recording, recording_buffer, recording_position, led,
                   last_state, current_state, sample_count, transcription,
                   response, recLocals, level, inflight, histVars>>

(* lines 662-667: malloc of the recording buffer, which may fail; the      *)
(* pointer to the previous buffer is overwritten and no free() of it       *)
(* exists anywhere in the file                                             *)
StartAlloc ==
    /\ pcB = "sr_alloc"
    /\ \E ok \in BOOLEAN :
         IF ok
         THEN /\ recording_buffer' = "buf"
              /\ live_buffers' = Sat(live_buffers)
              /\ pcB' = "sr_reset"
         ELSE /\ recording_buffer' = "NULL"
              /\ live_buffers' = live_buffers
              /\ pcB' = "loop_end"
    /\ UNCHANGED <<codecVars, lastRead, cycle, owned,
                   is_recording, recording_buffer_size, recording_position,
                   led, last_state, current_state, sample_count,
                   transcription, response, recLocals, level, inflight,
                   histVars>>

(* line 669: recording_position = 0 *)
StartReset ==
    /\ pcB = "sr_reset"
    /\ recording_position' = 0
    /\ pcB' = "sr_arm"
    /\ UNCHANGED <<live_buffers, codecVars, lastRead, cycle, owned,
                   is_recording, recording_buffer, recording_buffer_size,
                   led, last_state, current_state, sample_count,
                   transcription, response, recLocals, level, inflight,
                   histVars>>

(* line 670: is_recording = true *)
StartArm ==
    /\ pcB = "sr_arm"
    /\ is_recording' = TRUE
    /\ offered' = 0
    /\ bufferFull' = FALSE
    /\ pcB' = "sr_led"
    /\ cycle' = "armed"
    /\ UNCHANGED <<live_buffers, codecVars, lastRead, owned,
                   bufVars, led, last_state, current_state, sample_count,
                   transcription, response, recLocals, level, inflight,
                   edgeHist, cycleHist>>

(* line 674: set_led(LED_MAGENTA), return ESP_OK *)
StartLed ==
    /\ pcB = "sr_led"
    /\ led' = "LED_MAGENTA"
    /\ pcB' = "loop_end"
    /\ UNCHANGED <<live_buffers, codecVars, lastRead, cycle, owned,
                   is_recording, bufVars, last_state, current_state,
                   sample_count, transcription, response, recLocals, level,
                   inflight, histVars>>

(* ---- stop_recording (682-697) ---- *)

(* stop_recording without the store of line 689 *)
StopCheck_NoDisarm ==
    /\ pcB = "st_check"
    /\ pcB' = IF is_recording THEN "st_led" ELSE "empty_check"
    /\ UNCHANGED <<live_buffers, codecVars, lastRead, cycle, owned,
                   is_recording, bufVars, led,
                   last_state, current_state, sample_count, transcription,
                   response, recLocals, level, inflight, histVars>>

(* lines 684-689: refuse when not armed, else clear the flag *)
StopCheck ==
    /\ pcB = "st_check"
    /\ IF is_recording
       THEN /\ is_recording' = FALSE
            /\ pcB' = "st_led"
       ELSE /\ UNCHANGED is_recording
            /\ pcB' = "empty_check"
    /\ UNCHANGED <<live_buffers, codecVars, lastRead, cycle, owned,
                   bufVars, led, last_state, current_state, sample_count,
                   transcription, response, recLocals, level, inflight,
                   histVars>>

(* line 694: set_led(LED_YELLOW), return ESP_OK *)
StopLed ==
    /\ pcB = "st_led"
    /\ led' = "LED_YELLOW"
    /\ pcB' = "empty_check"
    /\ UNCHANGED <<live_buffers, codecVars, lastRead, cycle, owned,
                   is_recording, bufVars, last_state, current_state,
                   sample_count, transcription, response, recLocals, level,
                   inflight, histVars>>

(* ---- the release branch of button_task ---- *)

(* line 771: is anything recorded? *)
EmptyCheck ==
    /\ pcB = "empty_check"
    /\ pcB' = IF recording_position = 0 THEN "empty_red" ELSE "proc_led"
    /\ UNCHANGED <<live_buffers, codecVars, lastRead, cycle, owned,
                   is_recording, bufVars, led, last_state, current_state,
                   sample_count, transcription, response, recLocals, level,
                   inflight, histVars>>

(* line 773: set_led(LED_RED) *)
EmptyRed ==
    /\ pcB = "empty_red"
    /\ led' = "LED_RED"
    /\ redShown' = TRUE
    /\ pcB' = "empty_delay"
    /\ UNCHANGED <<live_buffers, codecVars, lastRead, cycle, owned,
                   is_recording, bufVars, last_state, current_state,
                   sample_count, transcription, response, recLocals, level,
                   inflight, offered, edgeHist, bufferFull, log, resp,
                   failed>>

(* line 774: vTaskDelay(1000) *)
EmptyDelay ==
    /\ pcB = "empty_delay"
    /\ CaptureIdle
    /\ pcB' = "empty_green"
    /\ UNCHANGED <<live_buffers, codecVars, lastRead, cycle, owned,
                   is_recording, bufVars, led, last_state, current_state,
                   sample_count, transcription, response, recLocals, level,
                   inflight, histVars>>

(* lines 775-776: set_led(LED_GREEN); continue -- back to the top of the   *)
(* loop, past line 816                                                     *)
EmptyGreen ==
    /\ pcB = "empty_green"
    /\ led' = "LED_GREEN"
    /\ pcB' = "poll"
    /\ emptyDone' = level
    /\ redShown' = FALSE
    /\ cycle' = "ended"
    /\ UNCHANGED <<live_buffers, codecVars, lastRead, owned,
                   is_recording, bufVars, last_state, current_state,
                   sample_count, transcription, response, recLocals, level,
                   inflight, offered, quietSinceGlitch, edgeCount,
                   bufferFull, log, resp, failed>>

(* line 780: set_led(LED_YELLOW) *)
ProcLed ==
    /\ pcB = "proc_led"
    /\ led' = "LED_YELLOW"
    /\ pcB' = "ta_call"
    /\ UNCHANGED <<live_buffers, codecVars, lastRead, cycle, owned,
                   is_recording, bufVars, last_state, current_state,
                   sample_count, transcription, response, recLocals, level,
                   inflight, histVars>>

(* lines 816-817: last_state = current_state; vTaskDelay(10) *)
LoopEnd ==
    /\ pcB = "loop_end"
    /\ last_state' = current_state
    /\ pcB' = "poll"
    /\ log' = <<>>
    /\ resp' = NoResps
    /\ failed' = "none"
    /\ redShown' = FALSE
    /\ UNCHANGED <<live_buffers, codecVars, lastRead, cycle, owned,
                   is_recording, bufVars, led, current_state, sample_count,
                   transcription, response, recLocals, level, inflight,
                   offered, edgeHist, bufferFull>>

(* ---- transcribe_audio (437-573) ---- *)

(* line 784: the call loads recording_position as sample_count *)
TranscribeCall ==
    /\ pcB = "ta_call"
    /\ sample_count' = recording_position
    /\ bufferFull' = FALSE
    /\ pcB' = "ta_led"
    /\ UNCHANGED <<live_buffers, codecVars, lastRead, cycle, owned,
                   is_recording, bufVars, led, last_state, current_state,
                   transcription, response, recLocals, level, inflight,
                   offered, edgeHist, cycleHist>>

(* line 441: set_led(LED_YELLOW) *)
TranscribeLed ==
    /\ pcB = "ta_led"
    /\ led' = "LED_YELLOW"
    /\ pcB' = "ta_alloc"
    /\ offered' = 0
    /\ UNCHANGED <<live_buffers, codecVars, lastRead, cycle, owned,
                   is_recording, bufVars, last_state, current_state,
                   sample_count, transcription, response, recLocals, level,
                   inflight, edgeHist, bufferFull, cycleHist>>

(* lines 444-448 and 483-489: the response buffer and the request body are *)
(* allocated; either failure returns NULL before any request is made       *)
TranscribeAlloc ==
    /\ pcB = "ta_alloc"
    /\ \E got \in {"both", "no_response_buffer", "no_body"} :
         IF got = "both"
         THEN /\ pcB' = "ta_perform"
              /\ owned' = Acquire(Acquire(owned, "response_buffer"), "body")
              /\ UNCHANGED <<transcription, failed>>
         ELSE /\ transcription' = "NULL"
              /\ failed' = "transcribe"
              /\ owned' = IF got = "no_body"
                          THEN Release(Acquire(owned, "response_buffer"),
                                       "response_buffer")
                          ELSE owned
              /\ pcB' = "tr_branch"
    /\ UNCHANGED <<live_buffers, codecVars, lastRead, cycle,
                   is_recording, bufVars, led, last_state, current_state,
                   sample_count, response, recLocals, level, inflight,
                   offered, edgeHist, bufferFull, log, resp, redShown>>

(* line 523 with audio_data NULL and sample_count > 0: the load faults *)
TranscribeNullCopy ==
    /\ pcB = "ta_alloc"
    /\ NullAccess(recording_buffer, sample_count)
    /\ Reboot

(* lines 532-537: esp_http_client_perform sends the request *)
TranscribePerform ==
    /\ pcB = "ta_perform"
    /\ inflight' = inflight \cup {"transcribe"}
    /\ log' = Logged(log, "transcribe_req")
    /\ pcB' = "ta_wait"
    /\ UNCHANGED <<live_buffers, codecVars, lastRead, cycle, owned,
                   is_recording, bufVars, led, last_state, current_state,
                   sample_count, transcription, response, recLocals, level,
                   offered, edgeHist, bufferFull, resp, failed, redShown>>

(* lines 537-572: the exchange ends, the body is decoded, buffers freed *)
TranscribeReturn ==
    /\ pcB = "ta_wait"
    /\ \E r \in Responses :
         /\ transcription' = TranscribeResult(r)
         /\ owned' = Release(Release(
                         IF TranscribeResult(r) # "NULL"
                         THEN Acquire(owned, "transcription") ELSE owned,
                         "body"), "response_buffer")
         /\ resp' = [resp EXCEPT !["transcribe"] = r]
         /\ failed' = IF TranscribeResult(r) = "NULL" THEN "transcribe"
                      ELSE failed
    /\ inflight' = inflight \ {"transcribe"}
    /\ log' = Logged(log, "transcribe_ret")
    /\ pcB' = "tr_branch"
    /\ UNCHANGED <<live_buffers, codecVars, lastRead, cycle,
                   is_recording, bufVars, led, last_state, current_state,
                   sample_count, response, recLocals, level, offered,
                   edgeHist, bufferFull, redShown>>

(* a failed transcription that is tried again *)
AfterTranscribe_Retry(t) == IF t # "NULL" THEN "gen_alloc" ELSE "ta_alloc"

(* line 785: if (transcription) *)
AfterTranscribe(t) == IF t # "NULL" THEN "gen_alloc" ELSE "tfail_red"

TranscribeBranch ==
    /\ pcB = "tr_branch"
    /\ pcB' = AfterTranscribe(transcription)
    /\ UNCHANGED <<live_buffers, codecVars, lastRead, cycle, owned,
                   is_recording, bufVars, led, last_state, current_state,
                   sample_count, transcription, response, recLocals, level,
                   inflight, histVars>>

(* ---- get_ai_response (230-318) ---- *)

(* lines 235-239: the response buffer is allocated, or NULL is returned *)
ChatAlloc ==
    /\ pcB = "gen_alloc"
    /\ \E ok \in BOOLEAN :
         IF ok
         THEN /\ pcB' = "gen_perform"
              /\ owned' = Acquire(Acquire(owned, "response_buffer"),
                                  "request_body")
              /\ UNCHANGED <<response, failed>>
         ELSE /\ response' = "NULL"
              /\ failed' = "generate"
              /\ owned' = owned
              /\ pcB' = "gen_branch"
    /\ UNCHANGED <<live_buffers, codecVars, lastRead, cycle,
                   is_recording, bufVars, led, last_state, current_state,
                   sample_count, transcription, recLocals, level, inflight,
                   offered, edgeHist, bufferFull, log, resp, redShown>>

(* line 285: esp_http_client_perform sends the request *)
ChatPerform ==
    /\ pcB = "gen_perform"
    /\ inflight' = inflight \cup {"generate"}
    /\ log' = Logged(log, "generate_req")
    /\ pcB' = "gen_wait"
    /\ UNCHANGED <<live_buffers, codecVars, lastRead, cycle, owned,
                   is_recording, bufVars, led, last_state, current_state,
                   sample_count, transcription, response, recLocals, level,
                   offered, edgeHist, bufferFull, resp, failed, redShown>>

(* lines 285-317: the exchange ends, the body is decoded, buffers freed *)
ChatReturn ==
    /\ pcB = "gen_wait"
    /\ \E r \in Responses :
         /\ response' = ChatResult(r)
         /\ owned' = Release(Release(
                         IF ChatResult(r) # "NULL"
                         THEN Acquire(owned, "response") ELSE owned,
                         "request_body"), "response_buffer")
         /\ resp' = [resp EXCEPT !["generate"] = r]
         /\ failed' = IF ChatResult(r) = "NULL" THEN "generate" ELSE failed
    /\ inflight' = inflight \ {"generate"}
    /\ log' = Logged(log, "generate_ret")
    /\ pcB' = "gen_branch"
    /\ UNCHANGED <<live_buffers, codecVars, lastRead, cycle,
                   is_recording, bufVars, led, last_state, current_state,
                   sample_count, transcription, recLocals, level, offered,
                   edgeHist, bufferFull, redShown>>

(* a failed generation that skips the error indication of 801-803 *)
AfterChat_Silent(r) == IF r # "NULL" THEN "sp_led" ELSE "free_transcription"

(* line 791: if (response) *)
AfterChat(r) == IF r # "NULL" THEN "sp_led" ELSE "gfail_red"

ChatBranch ==
    /\ pcB = "gen_branch"
    /\ pcB' = AfterChat(response)
    /\ UNCHANGED <<live_buffers, codecVars, lastRead, cycle, owned,
                   is_recording, bufVars, led, last_state, current_state,
                   sample_count, transcription, response, recLocals, level,
                   inflight, histVars>>

(* ---- speak_text (345-432) ---- *)

(* line 348: set_led(LED_CYAN) *)
SpeakLed ==
    /\ pcB = "sp_led"
    /\ led' = "LED_CYAN"
    /\ pcB' = "sp_alloc"
    /\ UNCHANGED <<live_buffers, codecVars, lastRead, cycle, owned,
                   is_recording, bufVars, last_state, current_state,
                   sample_count, transcription, response, recLocals, level,
                   inflight, histVars>>

(* lines 366-371: the 512 KB audio buffer; on failure speak_text returns   *)
(* ESP_ERR_NO_MEM at once, before line 430                                 *)
SpeakAlloc ==
    /\ pcB = "sp_alloc"
    /\ \E ok \in BOOLEAN :
         IF ok
         THEN /\ pcB' = "sp_perform"
              /\ owned' = Acquire(Acquire(owned, "request_body"),
                                  "audio_buffer")
              /\ UNCHANGED failed
         ELSE /\ pcB' = "free_response"
              /\ owned' = Release(Acquire(owned, "request_body"),
                                  "request_body")
              /\ failed' = "synthesize"
    /\ UNCHANGED <<live_buffers, codecVars, lastRead, cycle,
                   is_recording, bufVars, led, last_state, current_state,
                   sample_count, transcription, response, recLocals, level,
                   inflight, offered, edgeHist, bufferFull, log, resp,
                   redShown>>

(* line 397: esp_http_client_perform sends the request *)
SpeakPerform ==
    /\ pcB = "sp_perform"
    /\ inflight' = inflight \cup {"synthesize"}
    /\ log' = Logged(log, "synthesize_req")
    /\ pcB' = "sp_wait"
    /\ UNCHANGED <<live_buffers, codecVars, lastRead, cycle, owned,
                   is_recording, bufVars, led, last_state, current_state,
                   sample_count, transcription, response, recLocals, level,
                   offered, edgeHist, bufferFull, resp, failed, redShown>>

(* line 403: the audio is played when the exchange succeeded with data *)
Playable(r) == r.err = "ESP_OK" /\ r.status = 200 /\ r.body # "empty"

(* lines 397-403: the exchange ends *)
SpeakReturn ==
    /\ pcB = "sp_wait"
    /\ \E r \in Responses :
         /\ resp' = [resp EXCEPT !["synthesize"] = r]
         /\ pcB' = IF Playable(r) THEN "sp_play" ELSE "sp_green"
         /\ failed' = IF Playable(r) THEN failed ELSE "synthesize"
    /\ inflight' = inflight \ {"synthesize"}
    /\ log' = Logged(log, "synthesize_ret")
    /\ UNCHANGED <<live_buffers, codecVars, lastRead, cycle, owned,
                   is_recording, bufVars, led, last_state, current_state,
                   sample_count, transcription, response, recLocals, level,
                   offered, edgeHist, bufferFull, redShown>>

(* lines 406-420: the stereo buffer is allocated and written to the        *)
(* speaker, or playback is skipped when the allocation fails               *)
SpeakPlay ==
    /\ pcB = "sp_play"
    /\ \E ok \in BOOLEAN :
         /\ failed' = IF ok THEN failed ELSE "synthesize"
         /\ owned' = IF ok
                     THEN Release(Acquire(owned, "stereo_buffer"),
                                  "stereo_buffer")
                     ELSE owned
    /\ pcB' = "sp_green"
    /\ UNCHANGED <<live_buffers, codecVars, lastRead, cycle,
                   is_recording, bufVars, led, last_state, current_state,
                   sample_count, transcription, response, recLocals, level,
                   inflight, offered, edgeHist, bufferFull, log, resp,
                   redShown>>

(* lines 426-431: buffers freed, set_led(LED_GREEN), return err *)
SpeakGreen ==
    /\ pcB = "sp_green"
    /\ led' = "LED_GREEN"
    /\ pcB' = "free_response"
    /\ owned' = Release(Release(owned, "request_body"), "audio_buffer")
    /\ UNCHANGED <<live_buffers, codecVars, lastRead, cycle,
                   is_recording, bufVars, last_state, current_state,
                   sample_count, transcription, response, recLocals, level,
                   inflight, histVars>>

(* ---- the tail of the release branch ---- *)

(* line 798: free(response) *)
FreeResponse ==
    /\ pcB = "free_response"
    /\ response' = "NULL"
    /\ pcB' = "free_transcription"
    /\ owned' = Release(owned, "response")
    /\ UNCHANGED <<live_buffers, codecVars, lastRead, cycle,
                   is_recording, bufVars, led, last_state, current_state,
                   sample_count, transcription, recLocals, level, inflight,
                   histVars>>

(* line 806: free(transcription) *)
FreeTranscription ==
    /\ pcB = "free_transcription"
    /\ transcription' = "NULL"
    /\ sample_count' = 0
    /\ pcB' = "loop_end"
    /\ owned' = Release(owned, "transcription")
    /\ cycle' = "ended"
    /\ UNCHANGED <<live_buffers, codecVars, lastRead,
                   is_recording, bufVars, led, last_state, current_state,
                   response, recLocals, level, inflight, histVars>>

(* lines 801 and 809: set_led(LED_RED) after a failed phase *)
FailRed ==
    /\ pcB \in {"gfail_red", "tfail_red"}
    /\ led' = "LED_RED"
    /\ redShown' = TRUE
    /\ pcB' = IF pcB = "gfail_red" THEN "gfail_delay" ELSE "tfail_delay"
    /\ UNCHANGED <<live_buffers, codecVars, lastRead, cycle, owned,
                   is_recording, bufVars, last_state, current_state,
                   sample_count, transcription, response, recLocals, level,
                   inflight, offered, edgeHist, bufferFull, log, resp,
                   failed>>

(* lines 802 and 810: vTaskDelay(2000) *)
FailDelay ==
    /\ pcB \in {"gfail_delay", "tfail_delay"}
    /\ CaptureIdle
    /\ pcB' = IF pcB = "gfail_delay" THEN "gfail_green" ELSE "tfail_green"
    /\ UNCHANGED <<live_buffers, codecVars, lastRead, cycle, owned,
                   is_recording, bufVars, led, last_state, current_state,
                   sample_count, transcription, response, recLocals, level,
                   inflight, histVars>>

(* lines 803 and 811: set_led(LED_GREEN); the generation branch goes on to *)
(* free(transcription), the transcription branch to the end of the loop    *)
FailGreen ==
    /\ pcB \in {"gfail_green", "tfail_green"}
    /\ led' = "LED_GREEN"
    /\ pcB' = IF pcB = "gfail_green" THEN "free_transcription"
              ELSE "loop_end"
    /\ sample_count' = IF pcB = "tfail_green" THEN 0 ELSE sample_count
    /\ cycle' = IF pcB = "tfail_green" THEN "ended" ELSE cycle
    /\ UNCHANGED <<live_buffers, codecVars, lastRead, owned,
                   is_recording, bufVars, last_state, current_state,
                   transcription, response, recLocals, level, inflight,
                   histVars>>

button_task ==
    \/ Poll \/ PressDebounce \/ ReleaseDebounce
    \/ StartCheck \/ StartAlloc \/ StartReset \/ StartArm \/ StartLed
    \/ StopCheck \/ StopLed
    \/ EmptyCheck \/ EmptyRed \/ EmptyDelay \/ EmptyGreen \/ ProcLed
    \/ TranscribeCall \/ TranscribeLed \/ TranscribeAlloc
    \/ TranscribeNullCopy
    \/ TranscribePerform \/ TranscribeReturn \/ TranscribeBranch
    \/ ChatAlloc \/ ChatPerform \/ ChatReturn \/ ChatBranch
    \/ SpeakLed \/ SpeakAlloc \/ SpeakPerform \/ SpeakReturn \/ SpeakPlay
    \/ SpeakGreen \/ FreeResponse \/ FreeTranscription
    \/ FailRed \/ FailDelay \/ FailGreen \/ LoopEnd

Next == ButtonToggle \/ recording_task \/ button_task

Spec == Init /\ [][Next]_vars

(* ================= the buffer conversions on their own ================= *)

(* longest audio buffer, in bytes, of which every content is tried *)
MaxAudioBytes == 5
(* sample count of the one long recording that is tried as well, so that   *)
(* the size fields of the WAV header need more than one byte               *)
LongSamples == 150

(* byte values the buffers are filled with: zero, one, and all bits set *)
ByteValues == {0, 1, 255}

LongAudio == [i \in 1..(SizeofInt16 * LongSamples) |-> (7 * i) % 256]

(* audio_buffer of speak_text and recording_buffer of transcribe_audio as  *)
(* the bytes they hold                                                     *)
AudioInputs ==
    UNION {[1..k -> ByteValues] : k \in 0..MaxAudioBytes} \cup {LongAudio}

(* two bytes read as an int16_t (little-endian, two's complement) *)
ToInt16(lo, hi) ==
    LET u == lo + 256 * hi IN IF u >= 32768 THEN u - 65536 ELSE u

(* v stored in k bytes, least significant byte first (memcpy of a uintN_t) *)
LittleEndian(v, k) == [i \in 1..k |-> (v \div (256 ^ (i - 1))) % 256]

(* the unsigned value of little-endian bytes *)
RECURSIVE FromLittleEndian(_)
FromLittleEndian(b) ==
    IF b = <<>> THEN 0 ELSE b[1] + 256 * FromLittleEndian(Tail(b))

(* line 409: the response bytes seen as int16_t mono[] *)
MonoSamples(bytes, n) ==
    [i \in 1..n |-> ToInt16(bytes[2 * i - 1], bytes[2 * i])]

(* a conversion that fills the left channel only *)
StereoBuffer_LeftOnly(bytes) ==
    LET n    == Len(bytes) \div 2
        mono == MonoSamples(bytes, n)
    IN  [j \in 1..(2 * n) |->
            IF j % 2 = 1 THEN mono[((j - 1) \div 2) + 1] ELSE 0]

(* lines 406-416: sample_count = len / 2; stereo[2i] = stereo[2i+1] =      *)
(* mono[i]; sample_count * 4 bytes of it are written to the speaker        *)
StereoBuffer(bytes) ==
    LET n      == Len(bytes) \div 2
        mono   == MonoSamples(bytes, n)
        stereo == [j \in 1..(2 * n) |-> mono[((j - 1) \div 2) + 1]]
    IN  SubSeq(stereo, 1, (n * 4) \div SizeofInt16)

(* line 479: "WAV header is 44 bytes" *)
WavHeaderBytes == 44

(* lines 478-479; sample_count is recording_position, at most 120000, so  *)
(* the 32-bit sizes (240044 at most) never wrap                            *)
WavDataSize(n) == n * 2
WavFileSize(n) == WavDataSize(n) + WavHeaderBytes

(* a RIFF chunk size that counts the whole file *)
WavChunkSize_Whole(n) == WavFileSize(n)

(* line 500: chunk_size = wav_file_size - 8 *)
WavChunkSize(n) == WavFileSize(n) - 8

(* lines 499-520: the header fields in the order they are copied *)
WavHeader(n) ==
    <<82, 73, 70, 70>> \o LittleEndian(WavChunkSize(n), 4)
    \o <<87, 65, 86, 69>> \o <<102, 109, 116, 32>>
    \o LittleEndian(16, 4) \o LittleEndian(1, 2) \o LittleEndian(1, 2)
    \o LittleEndian(SAMPLE_RATE, 4) \o LittleEndian(SAMPLE_RATE * 2, 4)
    \o LittleEndian(2, 2) \o LittleEndian(16, 2)
    \o <<100, 97, 116, 97>> \o LittleEndian(WavDataSize(n), 4)

(* lines 499-523: the header followed by wav_data_size bytes of audio_data *)
WavFile(bytes, n) == WavHeader(n) \o SubSeq(bytes, 1, WavDataSize(n))

(* line 469: the multipart boundary, as ASCII codes *)
Boundary ==
    <<45, 45, 45, 45, 87, 101, 98, 75, 105, 116, 70, 111, 114, 109, 66,
      111, 117, 110, 100, 97, 114, 121, 55, 77, 65, 52, 89, 87, 120, 107,
      84, 114, 90, 117, 48, 103, 87>>

(* lines 494-496: the first format string; %s is the boundary.  It reads   *)
(* "--%s\r\nContent-Disposition: form-data; name=\"file\";                 *)
(* filename=\"audio.wav\"\r\nContent-Type: audio/wav\r\n\r\n"               *)
FilePartText ==
    <<45, 45>> \o Boundary \o
    <<13, 10, 67, 111, 110, 116, 101, 110, 116, 45, 68, 105, 115, 112, 111,
      115, 105, 116, 105, 111, 110, 58, 32, 102, 111, 114, 109, 45, 100,
      97, 116, 97, 59, 32, 110, 97, 109, 101, 61, 34, 102, 105, 108, 101,
      34, 59, 32, 102, 105, 108, 101, 110, 97, 109, 101, 61, 34, 97, 117,
      100, 105, 111, 46, 119, 97, 118, 34, 13, 10, 67, 111, 110, 116, 101,
      110, 116, 45, 84, 121, 112, 101, 58, 32, 97, 117, 100, 105, 111, 47,
      119, 97, 118, 13, 10, 13, 10>>

(* the second format string without its leading line break *)
ModelPartText_NoBreak ==
    <<45, 45>> \o Boundary \o
    <<13, 10, 67, 111, 110, 116, 101, 110, 116, 45, 68, 105, 115, 112, 111,
      115, 105, 116, 105, 111, 110, 58, 32, 102, 111, 114, 109, 45, 100,
      97, 116, 97, 59, 32, 110, 97, 109, 101, 61, 34, 109, 111, 100, 101,
      108, 34, 13, 10, 13, 10, 119, 104, 105, 115, 112, 101, 114, 45, 49,
      13, 10, 45, 45>>
    \o Boundary \o <<45, 45, 13, 10>>

(* lines 527-530: the second format string.  It reads                      *)
(* "\r\n--%s\r\nContent-Disposition: form-data; name=\"model\"\r\n\r\n       *)
(* whisper-1\r\n--%s--\r\n"                                                *)
ModelPartText ==
    <<13, 10, 45, 45>> \o Boundary \o
    <<13, 10, 67, 111, 110, 116, 101, 110, 116, 45, 68, 105, 115, 112, 111,
      115, 105, 116, 105, 111, 110, 58, 32, 102, 111, 114, 109, 45, 100,
      97, 116, 97, 59, 32, 110, 97, 109, 101, 61, 34, 109, 111, 100, 101,
      108, 34, 13, 10, 13, 10, 119, 104, 105, 115, 112, 101, 114, 45, 49,
      13, 10, 45, 45>>
    \o Boundary \o <<45, 45, 13, 10>>

(* line 482: the room left for the text around the WAV file *)
BodySlack == 512

(* line 482: body_size *)
BodySize(n) == BodySlack + WavFileSize(n)

(* snprintf(buf, room, ...): what it stores (at most room - 1 characters   *)
(* before the NUL); its return value is the whole length of the text       *)
SnprintfStored(text, room) ==
    IF Len(text) < room THEN text
    ELSE SubSeq(text, 1, IF room > 0 THEN room - 1 ELSE 0)

(* lines 492-530: offset as the code adds it up *)
MultipartOffset(n) ==
    Len(FilePartText) + WavHeaderBytes + WavDataSize(n) + Len(ModelPartText)

(* lines 492-530: the bytes stored in body *)
MultipartBody(bytes, n) ==
    LET head == SnprintfStored(FilePartText, BodySize(n))
        wav  == WavFile(bytes, n)
        off  == Len(FilePartText) + Len(wav)
        tail == SnprintfStored(ModelPartText, BodySize(n) - off)
    IN  head \o wav \o tail

(* ---- base64.h (src/arduino/atom_echo_voice) ---- *)

(* line 11: encodingTable, "A".."Z" "a".."z" "0".."9" "+" "/" as codes *)
EncodingTable ==
    <<65, 66, 67, 68, 69, 70, 71, 72, 73, 74, 75, 76, 77, 78, 79, 80, 81,
      82, 83, 84, 85, 86, 87, 88, 89, 90, 97, 98, 99, 100, 101, 102, 103,
      104, 105, 106, 107, 108, 109, 110, 111, 112, 113, 114, 115, 116, 117,
      118, 119, 120, 121, 122, 48, 49, 50, 51, 52, 53, 54, 55, 56, 57, 43,
      47>>

(* lines 31-32: the character '=' *)
PadChar == 61

(* lines 18-33: the loop of encode from index i on; the bits or-ed into    *)
(* triple do not overlap, so the sum is the same number; >> 18, 12 and 6   *)
(* are the divisions, & 0x3F the remainder by 64                           *)
RECURSIVE EncodeFrom(_, _)
EncodeFrom(data, i) ==
    IF i >= Len(data) THEN <<>>
    ELSE LET length == Len(data)
             triple == data[i + 1] * 65536
                       + (IF i + 1 < length THEN data[i + 2] * 256 ELSE 0)
                       + (IF i + 2 < length THEN data[i + 3] ELSE 0)
         IN  << EncodingTable[((triple \div 262144) % 64) + 1],
                EncodingTable[((triple \div 4096) % 64) + 1],
                IF i + 1 < length
                THEN EncodingTable[((triple \div 64) % 64) + 1] ELSE PadChar,
                IF i + 2 < length
                THEN EncodingTable[(triple % 64) + 1] ELSE PadChar >>
             \o EncodeFrom(data, i + 3)

(* lines 13-36: encode *)
Encode(data) == EncodeFrom(data, 0)

(* decodeLength that does not count the padding *)
DecodeLength_NoPadding(input) == (Len(input) \div 4) * 3

(* lines 38-46: decodeLength *)
DecodeLength(input) ==
    LET len == Len(input)
        padding == (IF len > 0 /\ input[len] = PadChar THEN 1 ELSE 0)
                   + (IF len > 1 /\ input[len - 1] = PadChar THEN 1 ELSE 0)
    IN  (len \div 4) * 3 - padding

(* lines 57-60: '=' counts as 0, any other character as its index in the   *)
(* table                                                                   *)
Sextet(c) ==
    IF c = PadChar THEN 0
    ELSE (CHOOSE k \in 1..Len(EncodingTable) : EncodingTable[k] = c) - 1

(* lines 56-67: the loop of decode from index i on, with j bytes written *)
RECURSIVE DecodeFrom(_, _, _, _, _)
DecodeFrom(input, i, j, output, outputLength) ==
    IF i >= Len(input) THEN output
    ELSE LET triple == Sextet(input[i + 1]) * 262144
                       + Sextet(input[i + 2]) * 4096
                       + Sextet(input[i + 3]) * 64
                       + Sextet(input[i + 4])
             out1 == IF j < outputLength
                     THEN [output EXCEPT ![j + 1] = (triple \div 65536) % 256]
                     ELSE output
             j1   == IF j < outputLength THEN j + 1 ELSE j
             out2 == IF j1 < outputLength
                     THEN [out1 EXCEPT ![j1 + 1] = (triple \div 256) % 256]
                     ELSE out1
             j2   == IF j1 < outputLength THEN j1 + 1 ELSE j1
             out3 == IF j2 < outputLength
                     THEN [out2 EXCEPT ![j2 + 1] = triple % 256]
                     ELSE out2
             j3   == IF j2 < outputLength THEN j2 + 1 ELSE j2
         IN  DecodeFrom(input, i + 4, j3, out3, outputLength)

(* lines 48-70: decode; the value returned and the output buffer after it *)
Decode(input, output, outputSize) ==
    IF Len(input) % 4 # 0 THEN [ret |-> -1, output |-> output]
    ELSE IF DecodeLength(input) > outputSize
         THEN [ret |-> -1, output |-> output]
         ELSE [ret |-> DecodeLength(input),
               output |-> DecodeFrom(input, 0, 0, output,
                                     DecodeLength(input))]

(* what an output byte holds before decode has written it *)
Unwritten == -1

(* the caller's output buffer of the given size *)
FreshOutput(size) == [k \in 1..size |-> Unwritten]

(* any buffer content up to the bound, and one long recording *)
CodecInit ==
    /\ InitProgram
    /\ codec_op = "input"
    /\ codec_in \in AudioInputs
    /\ codec_out = <<>>
    /\ codec_ret = 0
    /\ codec_arg = 0

(* speak_text, lines 403-416, for a response body of Len(codec_in) bytes *)
SpeakConvert ==
    /\ codec_op = "input"
    /\ Len(codec_in) > 0
    /\ codec_op' = "stereo"
    /\ codec_out' = StereoBuffer(codec_in)
    /\ codec_ret' = (Len(codec_in) \div 2) * 4
    /\ UNCHANGED <<codec_in, codec_arg, progVars, histVars, auditVars>>

(* transcribe_audio, lines 478-523, for the samples held in codec_in *)
WavBuild ==
    /\ codec_op = "input"
    /\ codec_op' = "wav"
    /\ codec_out' = WavFile(codec_in, Len(codec_in) \div SizeofInt16)
    /\ codec_ret' = WavFileSize(Len(codec_in) \div SizeofInt16)
    /\ UNCHANGED <<codec_in, codec_arg, progVars, histVars, auditVars>>

(* transcribe_audio, lines 478-532: the body handed to                     *)
(* esp_http_client_set_post_field and the length posted with it            *)
MultipartBuild ==
    /\ codec_op = "input"
    /\ codec_op' = "multipart"
    /\ codec_out' = MultipartBody(codec_in, Len(codec_in) \div SizeofInt16)
    /\ codec_ret' = MultipartOffset(Len(codec_in) \div SizeofInt16)
    /\ UNCHANGED <<codec_in, codec_arg, progVars, histVars, auditVars>>

(* longest byte sequence handed to encode, of which every content is tried *)
MaxBase64Bytes == 4

(* data and length of encode: every byte sequence up to the bound *)
Base64Inputs == UNION {[1..k -> ByteValues] : k \in 0..MaxBase64Bytes}

Base64Init ==
    /\ InitProgram
    /\ codec_op = "input"
    /\ codec_in \in Base64Inputs
    /\ codec_out = <<>>
    /\ codec_ret = 0
    /\ codec_arg = 0

(* encode(x), and decodeLength of the result *)
Base64Encode ==
    /\ codec_op = "input"
    /\ codec_op' = "b64_encode"
    /\ codec_out' = Encode(codec_in)
    /\ codec_ret' = DecodeLength(Encode(codec_in))
    /\ UNCHANGED <<codec_in, codec_arg, progVars, histVars, auditVars>>

(* decode(encode(x), output, outputSize) for an output buffer that is too  *)
(* small, exact or larger                                                  *)
Base64Decode ==
    /\ codec_op = "input"
    /\ codec_op' = "b64_decode"
    /\ \E size \in 0..(Len(codec_in) + 1) :
         LET r == Decode(Encode(codec_in), FreshOutput(size), size)
         IN  /\ codec_arg' = size
             /\ codec_ret' = r.ret
             /\ codec_out' = r.output
    /\ UNCHANGED <<codec_in, progVars, histVars, auditVars>>

(* decode of a text whose length is not a multiple of 4 (the bytes of the  *)
(* input taken as the text), into a buffer as long as the text             *)
Base64DecodeRagged ==
    /\ codec_op = "input"
    /\ Len(codec_in) % 4 # 0
    /\ codec_op' = "b64_ragged"
    /\ LET r == Decode(codec_in, FreshOutput(Len(codec_in)), Len(codec_in))
       IN  /\ codec_arg' = Len(codec_in)
           /\ codec_ret' = r.ret
           /\ codec_out' = r.output
    /\ UNCHANGED <<codec_in, progVars, histVars, auditVars>>

CodecNext == SpeakConvert \/ WavBuild \/ MultipartBuild

CodecSpec == CodecInit /\ [][CodecNext]_vars

Base64Next == Base64Encode \/ Base64Decode \/ Base64DecodeRagged

Base64Spec == Base64Init /\ [][Base64Next]_vars

(* ================= the response handlers (211-225, 330-340) ========== *)

(* In HandlerSpec codec_op names the handler, codec_in holds the lengths   *)
(* of the data chunks delivered so far, codec_out the runs <<k, n>> copied *)
(* into the buffer (n bytes of chunk k), codec_ret the accumulated length  *)
(* (http_response_len, ctx->len) and codec_arg one past the highest index  *)
(* written.                                                                *)

(* most data events delivered in one exchange *)
MaxChunks == 3

(* line 51 *)
HTTP_RESPONSE_BUFFER_SIZE == 16384

(* line 365 *)
audio_buffer_size == 512 * 1024

(* evt->data_len of one HTTP_EVENT_ON_DATA: a byte, a client buffer (512   *)
(* by default, 4096 at line 387), half the buffer, and the two lengths     *)
(* around the buffer size                                                  *)
HttpChunkSizes ==
    {1, 512, HTTP_RESPONSE_BUFFER_SIZE \div 2, HTTP_RESPONSE_BUFFER_SIZE - 1,
     HTTP_RESPONSE_BUFFER_SIZE}
TtsChunkSizes ==
    {1, 4096, audio_buffer_size \div 2, audio_buffer_size - 1,
     audio_buffer_size}

(* a test that lets the length reach the buffer size *)
Fits_Inclusive(len, n, size) == len + n <= size

(* lines 215 and 334: len + evt->data_len < size *)
Fits(len, n, size) == len + n < size

Highest(a, b) == IF a > b THEN a ELSE b

(* lines 240, 449 and 373-377: the buffer is allocated and the length is 0 *)
HandlerInit ==
    /\ InitProgram
    /\ codec_op \in {"http", "tts"}
    /\ codec_in = <<>>
    /\ codec_out = <<>>
    /\ codec_ret = 0
    /\ codec_arg = 0

(* http_event_handler, lines 214-220: memcpy, the new length, and the NUL  *)
(* stored at the new length                                                *)
HttpOnData ==
    /\ codec_op = "http"
    /\ Len(codec_in) < MaxChunks
    /\ \E n \in HttpChunkSizes :
         /\ codec_in' = Append(codec_in, n)
         /\ IF Fits(codec_ret, n, HTTP_RESPONSE_BUFFER_SIZE)
            THEN /\ codec_out' = Append(codec_out, <<Len(codec_in) + 1, n>>)
                 /\ codec_ret' = codec_ret + n
                 /\ codec_arg' = Highest(codec_arg, codec_ret + n + 1)
            ELSE UNCHANGED <<codec_out, codec_ret, codec_arg>>
    /\ UNCHANGED <<codec_op, progVars, histVars, auditVars>>

(* tts_event_handler, lines 332-337: memcpy and the new length *)
TtsOnData ==
    /\ codec_op = "tts"
    /\ Len(codec_in) < MaxChunks
    /\ \E n \in TtsChunkSizes :
         /\ codec_in' = Append(codec_in, n)
         /\ IF Fits(codec_ret, n, audio_buffer_size)
            THEN /\ codec_out' = Append(codec_out, <<Len(codec_in) + 1, n>>)
                 /\ codec_ret' = codec_ret + n
                 /\ codec_arg' = Highest(codec_arg, codec_ret + n)
            ELSE UNCHANGED <<codec_out, codec_ret, codec_arg>>
    /\ UNCHANGED <<codec_op, progVars, histVars, auditVars>>

HandlerNext == HttpOnData \/ TtsOnData

HandlerSpec == HandlerInit /\ [][HandlerNext]_vars

(* ================= properties ================= *)

IsPrefix(s, t) ==
    /\ Len(s) <= Len(t)
    /\ \A i \in 1..Len(s) : s[i] = t[i]

InLog(e) == \E i \in 1..Len(log) : log[i] = e

PhaseOrder == <<"transcribe_req", "transcribe_ret", "generate_req",
                "generate_ret", "synthesize_req", "synthesize_ret">>

(* the button task is between a confirmed release and the end of the loop *)
ReleasePath ==
    {"st_check", "st_led", "empty_check", "empty_red", "empty_delay",
     "empty_green", "proc_led", "ta_call", "ta_led", "ta_alloc",
     "ta_perform", "ta_wait", "tr_branch", "gen_alloc", "gen_perform",
     "gen_wait", "gen_branch", "sp_led", "sp_alloc", "sp_perform", "sp_wait",
     "sp_play", "sp_green", "free_response", "free_transcription",
     "gfail_red", "gfail_delay", "gfail_green", "tfail_red", "tfail_delay",
     "tfail_green"}

(* the button task is inside start_recording *)
PressPath == {"sr_check", "sr_alloc", "sr_reset", "sr_arm", "sr_led"}

(* a response that carries the expected field with status 200 *)
GoodResponse(r) == r.err = "ESP_OK" /\ r.status = 200 /\ r.body = "field"

(* C1: in every reachable state the write cursor is at most the buffer     *)
(* capacity, and in every step that leaves capture armed the cursor does   *)
(* not decrease, whatever the interleaving of the two tasks.               *)
C1_CursorBounded ==
    /\ [](recording_position <= recording_buffer_size)
    /\ [][(is_recording /\ is_recording')
            => recording_position' >= recording_position]_vars

(* C1 witness: capture is armed and the buffer cannot take another chunk *)
C1_Witness ==
    /\ is_recording
    /\ recording_position > 0
    /\ recording_position + AUDIO_CHUNK_SIZE > recording_buffer_size

(* C2 as stated: when the capture task has detected the overflow the       *)
(* cursor equals the capacity exactly.                                     *)
C2_CursorEqualsCapacity ==
    pcT = "disarm" => recording_position = recording_buffer_size

(* C2 amended: the step that detects the overflow leaves the cursor where  *)
(* it was, at most the capacity and less than one chunk below it (the      *)
(* chunk that does not fit is dropped whole), and the capture task's next  *)
(* step sets the armed flag to false.                                      *)
C2_ChunkDroppedWhole ==
    /\ [][(pcT = "space" /\ pcT' = "disarm")
            => /\ recording_position' = recording_position
               /\ recording_position <= recording_buffer_size
               /\ recording_position + samples_read > recording_buffer_size
               /\ samples_read <= AUDIO_CHUNK_SIZE]_vars
    /\ [][(pcT = "disarm" /\ pcT' # "disarm") => ~is_recording']_vars

(* C2 witness: the capture task has disarmed itself below the capacity *)
C2_Witness ==
    /\ pcT = "full_led"
    /\ bufferFull
    /\ ~is_recording
    /\ recording_position < recording_buffer_size
    /\ recording_position + samples_read > recording_buffer_size

(* C3: when the samples read while armed stay below the capacity, the      *)
(* sample count handed to transcribe_audio equals the number of samples    *)
(* read from the microphone during that recording.                         *)
C3_CountEqualsOffered ==
    (pcB = "ta_led" /\ offered > 0 /\ offered < recording_buffer_size)
        => sample_count = offered

(* C4: after a transition was discarded by the re-sample, and while the    *)
(* level has not changed since, the button task emits no edge: it is in    *)
(* neither start_recording nor the release handling.                       *)
C4_GlitchEmitsNothing ==
    quietSinceGlitch => pcB \notin (ReleasePath \cup PressPath)

(* C5: at most one edge is emitted (start_recording or the release         *)
(* handling entered) while the button level stays unchanged.               *)
C5_OneEdgePerTransition == edgeCount <= 1

(* C6: a release that finds zero samples issues no request, shows red      *)
(* during the delay, and after it the indicator stays green until the      *)
(* button is pressed again.                                                *)
C6_EmptyRelease ==
    /\ pcB \in {"empty_red", "empty_delay", "empty_green"}
         => (inflight = {} /\ log = <<>>)
    /\ pcB = "empty_delay" => led = "LED_RED"
    /\ emptyDone => led = "LED_GREEN"

(* C7 as stated: buffer-full is treated like a release, so a poll of the   *)
(* button task made while buffer-full is pending does not end the loop     *)
(* iteration without entering the release handling.                        *)
C7_BufferFullStartsPipeline ==
    [][(bufferFull /\ pcB = "poll" /\ pcB' # "poll")
         => pcB' # "loop_end"]_vars

(* C7 amended: buffer-full only disarms capture; the release handling and  *)
(* with it transcription run only in a loop iteration that sampled the     *)
(* button high against a remembered low and confirmed it on the re-sample. *)
C7_PipelineNeedsRelease ==
    /\ [](pcB \in ReleasePath => (current_state = TRUE /\ last_state = FALSE))
    /\ [][(pcB # "st_check" /\ pcB' = "st_check") => level = TRUE]_vars

(* C7 witness: transcription is about to start for a recording that the    *)
(* capture task ended on buffer-full                                       *)
C7_Witness == bufferFull /\ pcB = "ta_call" /\ ~is_recording

(* C8: within a cycle the requests are issued in the order transcribe,     *)
(* generate, synthesize, each at most once and each only after the         *)
(* previous one has returned; at most one request is in flight.            *)
C8_PhasesSequential ==
    /\ Cardinality(inflight) <= 1
    /\ IsPrefix(log, PhaseOrder)
    /\ \A p \in Phases :
         p \in inflight <=> (log # <<>> /\ log[Len(log)] = p \o "_req")

(* C8 witness: all three phases have run in this cycle *)
C8_Witness == log = PhaseOrder /\ inflight = {}

(* C9: a generation request is issued only after a transcription response  *)
(* with status 200 and a text field, a synthesis request only after a      *)
(* generation response with status 200 and the content field; after a      *)
(* failed transcription or generation no later request is issued and the   *)
(* cycle ends disarmed with nothing in flight.                             *)
C9_LaterPhaseNeedsSuccess ==
    /\ InLog("generate_req") => GoodResponse(resp["transcribe"])
    /\ InLog("synthesize_req") =>
         (GoodResponse(resp["transcribe"]) /\ GoodResponse(resp["generate"]))
    /\ failed = "transcribe" =>
         (~InLog("generate_req") /\ ~InLog("synthesize_req"))
    /\ failed = "generate" => ~InLog("synthesize_req")
    /\ (pcB = "loop_end" /\ failed \in {"transcribe", "generate"})
         => (~is_recording /\ inflight = {})

(* C9 witness: a cycle ends after a transcription response without text *)
C9_Witness ==
    /\ pcB = "loop_end"
    /\ failed = "transcribe"
    /\ resp["transcribe"].status = 200
    /\ resp["transcribe"].body = "no_field"

(* C10 as stated: a cycle in which any phase failed has shown red and ends *)
(* with the indicator green.                                               *)
C10_AnyFailureShowsRed ==
    (pcB = "loop_end" /\ failed # "none")
        => (redShown /\ led = "LED_GREEN")

(* C10 amended: a cycle in which transcription or generation failed shows  *)
(* red during the 2000 ms delay and ends with the indicator green; a cycle *)
(* in which synthesis failed never shows the error red.                    *)
C10_EarlyFailureShowsRed ==
    /\ pcB \in {"tfail_delay", "gfail_delay"} => led = "LED_RED"
    /\ (pcB = "loop_end" /\ failed \in {"transcribe", "generate"})
         => (redShown /\ led = "LED_GREEN")
    /\ failed = "synthesize" => ~redShown

(* C10 witness: a cycle ends green after a failed generation *)
C10_Witness ==
    /\ pcB = "loop_end"
    /\ failed = "generate"
    /\ redShown
    /\ led = "LED_GREEN"

(* C11: a cycle that entered transcription is back at the end of the       *)
(* button loop (Idle) with the indicator showing ready-green, whether its  *)
(* phases succeeded or failed.                                             *)
C11_CycleEndsGreen ==
    (pcB = "loop_end" /\ (log # <<>> \/ failed # "none"))
        => led = "LED_GREEN"

(* the button task has left stop_recording's flag test and has not yet     *)
(* finished the release handling                                           *)
AfterStop == ReleasePath \ {"st_check"}

(* C12: whenever a transcription, generation or synthesis request is in    *)
(* flight capture is disarmed, and it stays disarmed from stop_recording   *)
(* until the release handling has ended.                                   *)
C12_DisarmedWhileInFlight ==
    /\ inflight # {} => ~is_recording
    /\ pcB \in AfterStop => ~is_recording

(* C12 witness: the button is pressed again while the generation request   *)
(* of a recording that was armed is in flight                              *)
C12_Witness ==
    /\ inflight = {"generate"}
    /\ level = FALSE
    /\ sample_count > 0
    /\ ~is_recording

(* C13: at most one recording buffer allocation is live at any time.       *)
C13_OneLiveBuffer == live_buffers <= 1

(* the latest allocation of the recording buffer failed: the pointer is    *)
(* NULL although start_recording has computed a size                       *)
AllocFailed ==
    /\ recording_buffer = "NULL"
    /\ recording_buffer_size > 0
    /\ pcB # "sr_alloc"

(* C14: after the recording buffer could not be allocated capture is not   *)
(* armed and, until a later allocation succeeds, no transcription,         *)
(* generation or synthesis request is issued, whatever the cursor holds.   *)
C14_FailedAllocIssuesNothing ==
    AllocFailed => (~is_recording /\ inflight = {} /\ log = <<>>)

C16_DisarmedBufferQuiet ==
    [][(~is_recording /\ ~is_recording')
         => (recording_position' = recording_position
             \/ pcB = "sr_reset")]_vars

C18_ColourFollowsState ==
    /\ (is_recording /\ pcB \notin PressPath) => led = "LED_MAGENTA"
    /\ (inflight \cap {"transcribe", "generate"}) # {} => led = "LED_YELLOW"
    /\ "synthesize" \in inflight => led = "LED_CYAN"

(* C19: the buffer written to the speaker for a response of n complete     *)
(* 16-bit samples holds exactly 2n samples, and its samples 2i and 2i+1    *)
(* both equal sample i of the response, in the same order.                 *)
C19_StereoDuplicates ==
    codec_op = "stereo" =>
        LET n == Len(codec_in) \div 2 IN
        /\ Len(codec_out) = 2 * n
        /\ \A i \in 0..(n - 1) :
             /\ codec_out[2 * i + 1] = ToInt16(codec_in[2 * i + 1],
                                               codec_in[2 * i + 2])
             /\ codec_out[2 * i + 2] = codec_out[2 * i + 1]

(* C19 witness: two different samples and a dangling byte were converted *)
C19_Witness ==
    /\ codec_op = "stereo"
    /\ Len(codec_in) = 5
    /\ Len(codec_out) = 4
    /\ codec_out[1] < 0
    /\ codec_out[3] > 0

(* C20: the WAV container built for n samples is a 44-byte header followed *)
(* by exactly 2n data bytes; the RIFF chunk size field is the total length *)
(* less 8, that is 2n + 36, and the data subchunk size field is 2n.        *)
C20_WavSizes ==
    codec_op = "wav" =>
        LET n == Len(codec_in) \div 2 IN
        /\ Len(codec_out) = 44 + 2 * n
        /\ SubSeq(codec_out, 1, 4) = <<82, 73, 70, 70>>
        /\ FromLittleEndian(SubSeq(codec_out, 5, 8)) = Len(codec_out) - 8
        /\ FromLittleEndian(SubSeq(codec_out, 5, 8)) = 2 * n + 36
        /\ SubSeq(codec_out, 37, 40) = <<100, 97, 116, 97>>
        /\ FromLittleEndian(SubSeq(codec_out, 41, 44)) = 2 * n
        /\ SubSeq(codec_out, 45, Len(codec_out)) = SubSeq(codec_in, 1, 2 * n)

(* C20 witness: the long recording, whose sizes do not fit one byte *)
C20_Witness ==
    /\ codec_op = "wav"
    /\ Len(codec_in) = 2 * LongSamples
    /\ codec_out[6] > 0

(* the segments of the multipart body as the claim lists them *)
CRLF == <<13, 10>>
BoundaryLine == <<45, 45>> \o Boundary \o CRLF
ClosingBoundary == <<45, 45>> \o Boundary \o <<45, 45>> \o CRLF
FilePartHeaders ==
    <<67, 111, 110, 116, 101, 110, 116, 45, 68, 105, 115, 112, 111, 115,
      105, 116, 105, 111, 110, 58, 32, 102, 111, 114, 109, 45, 100, 97,
      116, 97, 59, 32, 110, 97, 109, 101, 61, 34, 102, 105, 108, 101, 34,
      59, 32, 102, 105, 108, 101, 110, 97, 109, 101, 61, 34, 97, 117, 100,
      105, 111, 46, 119, 97, 118, 34, 13, 10, 67, 111, 110, 116, 101, 110,
      116, 45, 84, 121, 112, 101, 58, 32, 97, 117, 100, 105, 111, 47, 119,
      97, 118, 13, 10>>
ModelPartHeader ==
    <<67, 111, 110, 116, 101, 110, 116, 45, 68, 105, 115, 112, 111, 115,
      105, 116, 105, 111, 110, 58, 32, 102, 111, 114, 109, 45, 100, 97,
      116, 97, 59, 32, 110, 97, 109, 101, 61, 34, 109, 111, 100, 101, 108,
      34, 13, 10>>
ModelValue ==
    <<119, 104, 105, 115, 112, 101, 114, 45, 49>>

(* the positions of s at which pat starts *)
Occurrences(s, pat) ==
    {i \in 1..(Len(s) - Len(pat) + 1) : SubSeq(s, i, i + Len(pat) - 1) = pat}

(* C21: the multipart body is the opening boundary line, the file-part     *)
(* headers, a blank line, the WAV bytes, CRLF, a boundary line, the        *)
(* model-part header, a blank line, the model value, CRLF and the closing  *)
(* boundary with its CRLF; the delimiter occurs three times (two parts and *)
(* the close); the posted length is the sum of the segment lengths and     *)
(* stays below the allocated 512 + WAV size.                               *)
C21_MultipartSegments ==
    codec_op = "multipart" =>
        LET n   == Len(codec_in) \div 2
            wav == WavFile(codec_in, n)
        IN
        /\ codec_out = BoundaryLine \o FilePartHeaders \o CRLF \o wav \o CRLF
                       \o BoundaryLine \o ModelPartHeader \o CRLF
                       \o ModelValue \o CRLF \o ClosingBoundary
        /\ Cardinality(Occurrences(codec_out, <<45, 45>> \o Boundary)) = 3
        /\ codec_ret = Len(codec_out)
        /\ codec_ret = 2 * Len(BoundaryLine) + Len(FilePartHeaders)
                       + Len(ModelPartHeader) + Len(ModelValue)
                       + Len(ClosingBoundary) + 4 * Len(CRLF) + Len(wav)
        /\ codec_ret < BodySlack + Len(wav)

(* C21 witness: the body of the long recording *)
C21_Witness ==
    /\ codec_op = "multipart"
    /\ Len(codec_in) = 2 * LongSamples
    /\ codec_ret > Len(codec_in) + WavHeaderBytes

(* a read that returned an error, or ESP_OK with no bytes *)
ReadFailedOrEmpty(m) ==
    \/ m.ret \notin {"ESP_OK", "none"}
    \/ (m.ret = "ESP_OK" /\ m.bytes = 0)

(* C22: a microphone read that returns while capture is armed with an      *)
(* error or with zero bytes leaves the cursor, the buffer, the armed flag  *)
(* and the indicator as they were and takes the capture task back to the   *)
(* top of its loop, from where, still armed, its next step is the read.    *)
C22_FailedReadChangesNothing ==
    [][/\ (pcT = "read" /\ is_recording /\ ReadFailedOrEmpty(lastRead'))
            => /\ pcT' = "check"
               /\ UNCHANGED <<recording_position, recording_buffer,
                              recording_buffer_size, is_recording, led>>
       /\ (pcT = "check" /\ ReadFailedOrEmpty(lastRead) /\ is_recording
             /\ pcT' # "check")
            => pcT' = "read"]_vars

(* C22 witness: a read failed in the middle of an armed capture *)
C22_Witness ==
    /\ pcT = "check"
    /\ ReadFailedOrEmpty(lastRead)
    /\ is_recording
    /\ recording_position > 0

(* C23: transcribe_audio is called only in a cycle that armed capture:     *)
(* the call of line 784 is made only when start_recording armed capture    *)
(* since the previous cycle ended.                                         *)
C23_TranscribesArmedCycleOnly ==
    [][(pcB = "ta_call" /\ pcB' = "ta_led") => cycle = "armed"]_vars

(* C24: a press made after a cycle has ended and held since, of which no   *)
(* edge has been detected yet, is detected by the poll that samples it.    *)
(* A poll that misses it leaves last_state false, and no later poll of the *)
(* held button can see a falling level.                                    *)
C24_HeldPressDetected ==
    [][(pcB = "poll" /\ pcB' # "poll" /\ cycle = "pressed" /\ edgeCount = 0)
         => pcB' = "press_debounce"]_vars

(* C25: no block is lost or freed twice; the strings and buffers are held  *)
(* while they are in use; each function returns holding only its result;   *)
(* and nothing is held when the button loop polls again.                   *)
C25_ReleasedOnce ==
    /\ "leak" \notin owned
    /\ "double_free" \notin owned
    /\ pcB \in {"poll", "loop_end"} => owned = {}
    /\ pcB = "tr_branch"
         => owned = (IF transcription # "NULL" THEN {"transcription"} ELSE {})
    /\ pcB = "gen_branch"
         => owned = {"transcription"}
                    \cup (IF response # "NULL" THEN {"response"} ELSE {})
    /\ pcB = "free_response" => owned = {"transcription", "response"}
    /\ pcB = "free_transcription" => owned = {"transcription"}
    /\ "transcribe" \in inflight => {"body", "response_buffer"} \subseteq owned
    /\ "generate" \in inflight
         => {"transcription", "request_body", "response_buffer"}
            \subseteq owned
    /\ "synthesize" \in inflight
         => {"response", "request_body", "audio_buffer"} \subseteq owned

(* C25 witness: a cycle that went through all three phases has freed       *)
(* everything                                                              *)
C25_Witness ==
    /\ pcB = "loop_end"
    /\ InLog("synthesize_ret")
    /\ owned = {}

(* the buffer size of the handler at work *)
HandlerBufferSize ==
    IF codec_op = "http" THEN HTTP_RESPONSE_BUFFER_SIZE ELSE audio_buffer_size

(* C26: the buffer holds a prefix of the concatenation of the chunks       *)
(* received: its k-th run is the whole of chunk k, so that no chunk is     *)
(* appended after one was dropped.                                         *)
C26_BufferIsPrefix ==
    codec_op \in {"http", "tts"}
        => \A k \in 1..Len(codec_out) : codec_out[k] = <<k, codec_in[k]>>

(* C28: after every data event the accumulated length is strictly below    *)
(* the buffer size and no index at or beyond the buffer size has been      *)
(* written: the highest index written is the last byte copied, or for      *)
(* http_event_handler the terminating NUL stored at the length.            *)
C28_LengthBelowSize ==
    codec_op \in {"http", "tts"}
        => /\ codec_ret < HandlerBufferSize
           /\ codec_arg <= HandlerBufferSize
           /\ codec_arg = (IF codec_op = "http" /\ Len(codec_out) > 0
                           THEN codec_ret + 1 ELSE codec_ret)

(* C28 witness: the buffer was filled to its last usable byte and a later  *)
(* chunk was refused                                                       *)
C28_Witness ==
    /\ codec_op = "http"
    /\ codec_ret = HTTP_RESPONSE_BUFFER_SIZE - 1
    /\ Len(codec_in) > Len(codec_out)

(* ceil(n / 3) *)
CeilThird(n) == IF n % 3 = 0 THEN n \div 3 ELSE (n \div 3) + 1

(* C27: encode(x) is 4 * ceil(len(x) / 3) characters long and decodeLength *)
(* of it is len(x); decode of it into an output of at least len(x) bytes   *)
(* returns len(x), stores x and writes nothing beyond it; decode into a    *)
(* smaller output, or of a text whose length is not a multiple of 4,       *)
(* returns -1 and writes nothing.                                          *)
C27_Base64RoundTrip ==
    /\ codec_op = "b64_encode"
         => /\ Len(codec_out) = 4 * CeilThird(Len(codec_in))
            /\ codec_ret = Len(codec_in)
    /\ codec_op = "b64_decode"
         => /\ Len(codec_out) = codec_arg
            /\ IF codec_arg >= Len(codec_in)
               THEN /\ codec_ret = Len(codec_in)
                    /\ SubSeq(codec_out, 1, Len(codec_in)) = codec_in
                    /\ \A k \in (Len(codec_in) + 1)..Len(codec_out) :
                         codec_out[k] = Unwritten
               ELSE /\ codec_ret = -1
                    /\ \A k \in 1..Len(codec_out) : codec_out[k] = Unwritten
    /\ codec_op = "b64_ragged"
         => /\ codec_ret = -1
            /\ Len(codec_out) = Len(codec_in)
            /\ \A k \in 1..Len(codec_out) : codec_out[k] = Unwritten

(* C27 witness: four bytes, the last one 255, came back from the round     *)
(* trip through a text with two padding characters                         *)
C27_Witness ==
    /\ codec_op = "b64_decode"
    /\ Len(codec_in) = 4
    /\ codec_in[4] = 255
    /\ codec_ret = 4
    /\ codec_out = codec_in

TypeOK ==
    /\ is_recording \in BOOLEAN
    /\ recording_position \in 0..BufferSamples
    /\ led \in Colors
    /\ inflight \subseteq Phases
====
